---- MODULE Spec2Model ----
(***************************************************************************)
(* Browser-side live reload client of web-dev-server (src/js/script.js).   *)
(*                                                                         *)
(* The client is a single-threaded event-driven program.  Its state is the *)
(* closure of the IIFE (config, retryDelay), the WebSocket objects it has  *)
(* created, the pending setTimeout(connect, ..) timers, the pending        *)
(* fetches of applyHtmlDiff and the live document.  Every event listener   *)
(* runs to completion and is one action.                                   *)
(*                                                                         *)
(* JavaScript strings that are paths are sequences of lexical tokens       *)
(* ("/", a name, "index.html", ...); the string is their concatenation.    *)
(* Paths are path-only URL references (no scheme, no authority, no query). *)
(***************************************************************************)
EXTENDS Integers, Sequences, FiniteSets, TLC

VARIABLES
    diffMode,       \* const diffMode = Boolean(config.diffMode)
    locationPath,   \* window.location.pathname
    retryDelay,     \* let retryDelay
    sockets,        \* the WebSocket objects: slot -> ready state
    timers,         \* pending setTimeout(connect, delay): the delays
    now,            \* Date.now()
    title,          \* document.title
    head,           \* document.head.children
    body,           \* document.body.childNodes
    fetches,        \* pending fetch() calls of applyHtmlDiff
    feed,           \* the frames the server sends in this session
    lastEvent,      \* the event whose listener ran last
    effects,        \* what that listener did, in order (console output,
                    \* location.replace, fetch, link.href assignments)
    uncaught,       \* did an exception escape that listener
    run,            \* closes since the last open (saturates at MaxRun)
    reopened        \* the last open followed at least one close

vars == <<diffMode, locationPath, feed, retryDelay, sockets, timers, now, title,
          head, body, fetches, lastEvent, effects, uncaught, run,
          reopened>>

envVars == <<diffMode, locationPath, feed>>
connVars == <<retryDelay, sockets, timers>>
docVars == <<title, head, body>>

-----------------------------------------------------------------------------
(* Bounds                                                                  *)

MaxSockets == 2     \* WebSocket objects alive at once
MaxRun == 6         \* consecutive closes that are counted
MaxClock == 2       \* values of Date.now()
MaxFetches == 1     \* fetches pending at once
MaxHead == 6        \* children of the live head
MaxTimers == 2      \* reconnect timers pending at once
MaxOverlap == 2     \* fetches pending at once in a patch session
MaxPatchHead == 7   \* children of the live head in a patch session
MaxPathLen == 4     \* tokens of the path of an html diff

-----------------------------------------------------------------------------
(* Program constants                                                       *)

InitialRetryDelay == 500
MaxRetryDelay == 8000

Min2(a, b) == IF a < b THEN a ELSE b

-----------------------------------------------------------------------------
(* JavaScript values                                                       *)

Undefined == [t |-> "undefined"]
Null == [t |-> "null"]
Num(n) == [t |-> "number", n |-> n]
Str(s) == [t |-> "string", s |-> s]
Obj(type, resource, path) ==
    [t |-> "object", type |-> type, resource |-> resource, path |-> path]
EmptyObj == Obj(Undefined, Undefined, Undefined)

\* !v
Falsy(v) ==
    \/ v.t \in {"undefined", "null"}
    \/ v.t = "number" /\ v.n = 0
    \/ v.t = "string" /\ v.s = <<>>

\* v[key] for a value that is not null or undefined
Get(v, key) ==
    IF v.t # "object" THEN Undefined
    ELSE CASE key = "type" -> v.type
           [] key = "resource" -> v.resource
           [] key = "path" -> v.path
           [] OTHER -> Undefined

\* String(v) of a value used where a string is expected
ToStr(v) ==
    CASE v.t = "string" -> v.s
      [] v.t = "undefined" -> <<"undefined">>
      [] v.t = "null" -> <<"null">>
      [] v.t = "number" -> <<"0">>
      [] OTHER -> <<"[object Object]">>

StartsWith(s, tok) == Len(s) > 0 /\ s[1] = tok
EndsWith(s, tok) == Len(s) > 0 /\ s[Len(s)] = tok
DropLast(s) == SubSeq(s, 1, Len(s) - 1)

-----------------------------------------------------------------------------
(* Connection manager                                                      *)

Slots == 1..MaxSockets
Live(st) == st # "none"
LiveSockets == {s \in Slots : Live(sockets[s])}

\* socket.close(): no effect on a socket that is closing or closed
SocketCloseCall(readyState) ==
    IF readyState \in {"closing", "closed"} THEN readyState ELSE "closing"

\* new WebSocket(target) in connect(): the new object is connecting
NewSocket(socks) ==
    LET free == CHOOSE s \in Slots : socks[s] = "none"
    IN  [socks EXCEPT ![free] = "connecting"]

\* the "open" listener
OpenListener(rd) == InitialRetryDelay

\* a close listener that stops retrying once the delay has reached its cap
CloseListener_GivesUp(rd, tm) ==
    IF rd >= MaxRetryDelay THEN [retryDelay |-> rd, timers |-> tm]
    ELSE [retryDelay |-> Min2(rd * 2, MaxRetryDelay),
          timers |-> Append(tm, Min2(rd * 2, MaxRetryDelay))]

\* the "close" listener
CloseListener(rd, tm) ==
    LET d == Min2(rd * 2, MaxRetryDelay)
    IN  [retryDelay |-> d, timers |-> Append(tm, d)]

\* an error listener that also reconnects, as the close listener does
ErrorListener_Reconnects(readyState, rd, tm) ==
    [readyState |-> SocketCloseCall(readyState),
     retryDelay |-> CloseListener(rd, tm).retryDelay,
     timers |-> CloseListener(rd, tm).timers]

\* the "error" listener
ErrorListener(readyState, rd, tm) ==
    [readyState |-> SocketCloseCall(readyState),
     retryDelay |-> rd, timers |-> tm]

-----------------------------------------------------------------------------
(* URLs                                                                    *)

\* an absolute URL: host, pathname and the value of its _v parameter
\* (0: the URL has no _v parameter)
Url(host, path, v) == [host |-> host, path |-> path, v |-> v]
NoUrl == Url("", <<>>, 0)

\* new URL(path, window.location.origin).pathname for a path-only reference:
\* a reference that does not start with "/" is relative to the origin's "/"
UrlPathname(path) ==
    LET s == ToStr(path)
    IN  IF StartsWith(s, "/") THEN s ELSE <<"/">> \o s

\* new URL(link.href, origin).pathname: link.href is already absolute
HrefPathname(href) == href.path

cacheBustUrl(path) == Url("self", UrlPathname(path), now)

-----------------------------------------------------------------------------
(* Path normalizer                                                         *)

\* pathname.replace(/index\.html?$/i, ""): the last token, when it is one of
\* the index file names in any letter case
StripIndex(s) ==
    IF Len(s) > 0 /\ s[Len(s)] \in {"index.html", "index.htm", "INDEX.HTML"}
    THEN DropLast(s) ELSE s

\* pathname.replace(/\/+$/, "")
RECURSIVE StripSlashes(_)
StripSlashes(s) == IF EndsWith(s, "/") THEN StripSlashes(DropLast(s)) ELSE s

\* a normalizer that leaves trailing slashes in place
normalizeHtmlPath_KeepsSlash(path) ==
    LET p0 == UrlPathname(path)
        p1 == IF EndsWith(p0, "index.html") \/ EndsWith(p0, "index.htm")
              THEN StripIndex(p0) ELSE p0
        p3 == IF ~StartsWith(p1, "/") THEN <<"/">> \o p1 ELSE p1
    IN  IF p3 = <<>> THEN <<"/">> ELSE p3

normalizeHtmlPath(path) ==
    LET p0 == UrlPathname(path)
        p1 == IF EndsWith(p0, "index.html") \/ EndsWith(p0, "index.htm")
              THEN StripIndex(p0) ELSE p0
        p2 == IF Len(p1) > 1 /\ EndsWith(p1, "/") THEN StripSlashes(p1) ELSE p1
        p3 == IF ~StartsWith(p2, "/") THEN <<"/">> \o p2 ELSE p2
    IN  IF p3 = <<>> THEN <<"/">> ELSE p3

\* a comparison that lets every path through
pathsMatch_Always(messagePath, currentPath) == TRUE

pathsMatch(messagePath, currentPath) ==
    normalizeHtmlPath(messagePath) = normalizeHtmlPath(currentPath)

-----------------------------------------------------------------------------
(* Document                                                                *)

\* An element.  gen tells where the object comes from: "live" (in the live
\* document when the script starts), "parsed" (made by DOMParser),
\* "imported" (made by document.importNode), "created" (made by
\* document.createElement).
Element(tag, id, rel, href, src, text, gen) ==
    [tag |-> tag, id |-> id, rel |-> rel, href |-> href, src |-> src,
     text |-> text, gen |-> gen]
Link(id, rel, href, gen) == Element("link", id, rel, href, "", "", gen)
Script(id, src, text, gen) == Element("script", id, "", NoUrl, src, text, gen)
Plain(tag, id, gen) == Element(tag, id, "", NoUrl, "", "", gen)

\* matches the selector link[rel="stylesheet"]
IsStylesheetLink(e) == e.tag = "link" /\ e.rel = "stylesheet"

getPreservedIds == {"__web_dev_server_config", "__web_dev_server_client"}

-----------------------------------------------------------------------------
(* Full reload and the diff appliers.  A handler works on the record       *)
(* w = [title, head, body, fetches, effects].                              *)

Effect(op, url) == [op |-> op, url |-> url]
Do(w, op, url) == [w EXCEPT !.effects = Append(@, Effect(op, url))]

hardReload(w, path) == Do(w, "replace", cacheBustUrl(path))

\* querySelector in place of querySelectorAll: only the first stylesheet link
\* of the head is looked at
applyCssDiff_FirstOnly(w, path) ==
    IF Falsy(path) THEN hardReload(w, Str(locationPath))
    ELSE
    LET normalizedPath == UrlPathname(path)
        idx == {i \in DOMAIN w.head : IsStylesheetLink(w.head[i])}
        first == CHOOSE i \in idx : \A j \in idx : i <= j
        updated == idx # {} /\ HrefPathname(w.head[first].href) = normalizedPath
    IN  IF ~updated THEN hardReload(w, Str(locationPath))
        ELSE Do([w EXCEPT !.head[first].href.v = now], "href",
                [w.head[first].href EXCEPT !.v = now])

applyCssDiff(w, path) ==
    IF Falsy(path) THEN hardReload(w, Str(locationPath))
    ELSE
    LET normalizedPath == UrlPathname(path)
        hit(e) == IsStylesheetLink(e) /\ HrefPathname(e.href) = normalizedPath
        fresh(e) == [e EXCEPT !.href.v = now]
        rewrite(seq) ==
            [i \in DOMAIN seq |-> IF hit(seq[i]) THEN fresh(seq[i]) ELSE seq[i]]
        hrefs(seq) ==
            LET idx == {i \in DOMAIN seq : hit(seq[i])}
                F[k \in 0..Len(seq)] ==
                    IF k = 0 THEN <<>>
                    ELSE IF k \in idx
                         THEN Append(F[k-1], Effect("href", fresh(seq[k]).href))
                         ELSE F[k-1]
            IN  F[Len(seq)]
        updated == \/ \E i \in DOMAIN w.head : hit(w.head[i])
                   \/ \E i \in DOMAIN w.body : hit(w.body[i])
        w1 == [w EXCEPT !.head = rewrite(@), !.body = rewrite(@),
                        !.effects = @ \o hrefs(w.head) \o hrefs(w.body)]
    IN  IF ~updated THEN hardReload(w1, Str(locationPath)) ELSE w1

\* an applyHtmlDiff that aborts the fetches still pending when it starts one
applyHtmlDiff_AbortsPending(w, path) ==
    IF Falsy(path) THEN hardReload(w, Str(locationPath))
    ELSE LET url == cacheBustUrl(path)
         IN  Do([w EXCEPT !.fetches = <<url>>], "fetch", url)

\* applyHtmlDiff up to its first await: the fetch is started
applyHtmlDiff(w, path) ==
    IF Falsy(path) THEN hardReload(w, Str(locationPath))
    ELSE LET url == cacheBustUrl(path)
         IN  Do([w EXCEPT !.fetches = Append(@, url)], "fetch", url)

-----------------------------------------------------------------------------
(* Message dispatcher                                                      *)

\* a diff case without the diffMode test
diffCase_NoModeTest(w, resource, path) ==
    IF resource = Str(<<"html">>)
    THEN IF ~pathsMatch(path, Str(locationPath))
         THEN Do(w, "log", NoUrl)
         ELSE applyHtmlDiff(w, path)
    ELSE IF resource = Str(<<"css">>)
    THEN applyCssDiff(w, path)
    ELSE hardReload(w, Str(locationPath))

\* case "diff"
diffCase(w, resource, path) ==
    IF ~diffMode THEN hardReload(w, Str(locationPath))
    ELSE IF resource = Str(<<"html">>)
    THEN IF ~pathsMatch(path, Str(locationPath))
         THEN Do(w, "log", NoUrl)
         ELSE applyHtmlDiff(w, path)
    ELSE IF resource = Str(<<"css">>)
    THEN applyCssDiff(w, path)
    ELSE hardReload(w, Str(locationPath))

\* a dispatcher whose "reload" case has no break and falls into "diff"
handleMessage_Fallthrough(w, message) ==
    IF Falsy(message) \/ Get(message, "type").t # "string" THEN w
    ELSE
    LET type == Get(message, "type")
    IN  CASE type = Str(<<"reload">>) ->
                diffCase(hardReload(w, Str(locationPath)),
                         Get(message, "resource"), Get(message, "path"))
          [] type = Str(<<"diff">>) ->
                diffCase(w, Get(message, "resource"), Get(message, "path"))
          [] OTHER -> w

handleMessage(w, message) ==
    IF Falsy(message) \/ Get(message, "type").t # "string" THEN w
    ELSE
    LET type == Get(message, "type")
    IN  CASE type = Str(<<"reload">>) -> hardReload(w, Str(locationPath))
          [] type = Str(<<"diff">>) ->
                diffCase(w, Get(message, "resource"), Get(message, "path"))
          [] OTHER -> w

-----------------------------------------------------------------------------
(* JSON text.  A frame's text is the sequence of its JSON lexemes; objects *)
(* are flat (their members are scalars).                                   *)

Punct(c) == [k |-> c]
NumLit(n) == [k |-> "number", n |-> n]
StrLit(s) == [k |-> "string", s |-> s]

IsScalarLit(tok) == tok.k \in {"null", "number", "string"}
ScalarOf(tok) ==
    CASE tok.k = "null" -> Null
      [] tok.k = "number" -> Num(tok.n)
      [] tok.k = "string" -> Str(tok.s)

Thrown == [threw |-> TRUE, value |-> Undefined]
Returned(v) == [threw |-> FALSE, value |-> v]

SetField(obj, key, v) ==
    CASE key = <<"type">> -> [obj EXCEPT !.type = v]
      [] key = <<"resource">> -> [obj EXCEPT !.resource = v]
      [] key = <<"path">> -> [obj EXCEPT !.path = v]
      [] OTHER -> obj

\* members := string ":" scalar ( "," members | "}" )
RECURSIVE ParseMembers(_, _)
ParseMembers(rest, obj) ==
    IF Len(rest) < 4 THEN Thrown
    ELSE IF rest[1].k # "string" \/ rest[2].k # ":" \/ ~IsScalarLit(rest[3])
    THEN Thrown
    ELSE LET o == SetField(obj, rest[1].s, ScalarOf(rest[3]))
         IN  IF rest[4].k = "}"
             THEN IF Len(rest) = 4 THEN Returned(o) ELSE Thrown
             ELSE IF rest[4].k = ","
             THEN ParseMembers(SubSeq(rest, 5, Len(rest)), o)
             ELSE Thrown

\* JSON.parse(text): the value, or a SyntaxError
JSONParse(text) ==
    IF Len(text) = 0 THEN Thrown
    ELSE IF IsScalarLit(text[1])
    THEN IF Len(text) = 1 THEN Returned(ScalarOf(text[1])) ELSE Thrown
    ELSE IF text[1].k = "{"
    THEN IF Len(text) = 2 /\ text[2].k = "}" THEN Returned(EmptyObj)
         ELSE ParseMembers(Tail(text), EmptyObj)
    ELSE Thrown

\* the text the server writes for a value (members that are undefined are
\* left out)
LitOf(v) ==
    CASE v.t = "null" -> Punct("null")
      [] v.t = "number" -> NumLit(v.n)
      [] v.t = "string" -> StrLit(v.s)

Member(key, v) ==
    IF v.t = "undefined" THEN <<>>
    ELSE <<StrLit(<<key>>), Punct(":"), LitOf(v), Punct(",")>>

JSONText(v) ==
    IF v.t # "object" THEN <<LitOf(v)>>
    ELSE LET m == Member("type", v.type) \o Member("resource", v.resource)
                  \o Member("path", v.path)
         IN  <<Punct("{")>> \o (IF m = <<>> THEN <<>> ELSE DropLast(m))
             \o <<Punct("}")>>

-----------------------------------------------------------------------------
(* The "message" listener                                                  *)

\* a listener without the try/catch
messageListener_NoCatch(w, data) ==
    LET parsed == JSONParse(data)
    IN  IF parsed.threw THEN [w EXCEPT !.threw = TRUE]
        ELSE handleMessage(w, parsed.value)

messageListener(w, data) ==
    LET parsed == JSONParse(data)
        tried == IF parsed.threw THEN [w EXCEPT !.threw = TRUE]
                 ELSE handleMessage(w, parsed.value)
    IN  IF tried.threw                       \* catch (err)
        THEN Do([tried EXCEPT !.threw = FALSE], "error", NoUrl)
        ELSE tried

-----------------------------------------------------------------------------
(* DOM merge engine                                                        *)

\* document.importNode(node, true)
importNode(node) == [node EXCEPT !.gen = "imported"]

updateTitle(w, doc) ==
    IF doc.title # "" THEN [w EXCEPT !.title = doc.title] ELSE w

\* doc.head or doc.body of a document that has none
NoNode == <<Null>>

replaceBody(w, newBody) ==
    IF newBody = NoNode THEN hardReload(w, Str(locationPath))
    ELSE [w EXCEPT !.body = [i \in DOMAIN newBody |-> importNode(newBody[i])]]

\* existingById.get(id): Map.set keeps the last child with that id
ExistingIndex(children, id) ==
    CHOOSE i \in DOMAIN children :
        /\ children[i].id = id
        /\ \A j \in DOMAIN children : children[j].id = id => j <= i

\* the forEach over newHead.children, from child k on; ids is the key set of
\* existingById and head0 the head the index was built from
RECURSIVE MergeChildren(_, _, _, _, _)
MergeChildren(cur, head0, ids, newHead, k) ==
    IF k > Len(newHead) THEN cur
    ELSE
    LET node == newHead[k]
    IN  IF node.id # "" /\ node.id \in getPreservedIds
        THEN MergeChildren(cur, head0, ids, newHead, k + 1)
        ELSE IF node.id # "" /\ node.id \in ids
        THEN MergeChildren(
                [cur EXCEPT ![ExistingIndex(head0, node.id)] = importNode(node)],
                head0, ids \ {node.id}, newHead, k + 1)
        ELSE MergeChildren(Append(cur, importNode(node)), head0, ids,
                           newHead, k + 1)

\* a merge that does not append a fetched child without id when the head
\* has a child like it already
mergeHead_SkipsKnown(w, newHead) ==
    IF newHead = NoNode THEN w
    ELSE
    LET known(n) ==
            /\ n.id = ""
            /\ \E i \in DOMAIN w.head :
                    [w.head[i] EXCEPT !.gen = "parsed"] = [n EXCEPT !.gen = "parsed"]
        existingById ==
            {w.head[i].id : i \in {j \in DOMAIN w.head : w.head[j].id # ""}}
    IN  [w EXCEPT !.head =
            MergeChildren(w.head, w.head, existingById,
                          SelectSeq(newHead, LAMBDA n : ~known(n)), 1)]

\* a merge that replaces the children of the head the way replaceBody
\* replaces those of the body
mergeHead_Replaces(w, newHead) ==
    IF newHead = NoNode THEN w
    ELSE [w EXCEPT !.head = [i \in DOMAIN newHead |-> importNode(newHead[i])]]

mergeHead(w, newHead) ==
    IF newHead = NoNode THEN w
    ELSE
    LET existingById ==
            {w.head[i].id : i \in {j \in DOMAIN w.head : w.head[j].id # ""}}
    IN  [w EXCEPT !.head = MergeChildren(w.head, w.head, existingById,
                                         newHead, 1)]

\* the script element reactivateScripts puts in the place of oldScript
NewScript(oldScript) ==
    [oldScript EXCEPT !.gen = "created",
                      !.text = IF oldScript.src = "" THEN @ ELSE ""]

reactivateScripts(children) ==
    [i \in DOMAIN children |->
        LET oldScript == children[i]
        IN  IF oldScript.tag # "script" THEN oldScript
            ELSE IF oldScript.id # "" /\ oldScript.id \in getPreservedIds
            THEN oldScript
            ELSE NewScript(oldScript)]

\* oldScript.replaceWith(newScript) inserts a script the browser has not run
\* yet: it runs it.  The effects of reactivateScripts(root), in document
\* order.
ScriptUrl(e) == IF e.src = "" THEN NoUrl ELSE Url("self", <<e.src>>, 0)
Reactivations(children) ==
    LET F[k \in 0..Len(children)] ==
            IF k = 0 THEN <<>>
            ELSE IF children[k].tag = "script"
                    /\ ~(children[k].id # "" /\ children[k].id \in getPreservedIds)
                 THEN Append(F[k - 1], Effect("script", ScriptUrl(children[k])))
                 ELSE F[k - 1]
    IN  F[Len(children)]

\* What the awaited chain of applyHtmlDiff produces.  outcome: "rejected"
\* (fetch rejects), "unreadable" (response.text() rejects), "nodoc"
\* (parseFromString gives no document), "parsed".  status is the HTTP status
\* of a response that resolved; throws names the step of the patch in which a
\* DOM call throws ("" when none does).
Response(outcome, status, doc, throws) ==
    [outcome |-> outcome, status |-> status, doc |-> doc, throws |-> throws]

\* one statement of the try block, which makes done of w: skipped once an
\* exception is on its way
Step(w, throws, done) ==
    IF w.threw THEN w
    ELSE IF throws THEN [w EXCEPT !.threw = TRUE]
    ELSE done

\* a try block that reactivates the scripts of the live document before it
\* merges the head and replaces the body
PatchSteps_ReactivatesFirst(w, response) ==
    LET doc == response.doc
        t0 == Step(w, response.outcome # "parsed", w)
        t1 == Step(t0, response.throws = "updateTitle", updateTitle(t0, doc))
        t2 == Step(t1, response.throws = "reactivateScripts",
                   [t1 EXCEPT !.body = reactivateScripts(@),
                              !.effects = @ \o Reactivations(t1.body)])
        t3 == Step(t2, FALSE,
                   [t2 EXCEPT !.head = reactivateScripts(@),
                              !.effects = @ \o Reactivations(t2.head)])
        t4 == Step(t3, response.throws = "mergeHead", mergeHead(t3, doc.head))
    IN  Step(t4, response.throws = "replaceBody", replaceBody(t4, doc.body))

\* the try block of applyHtmlDiff from its first await on
PatchSteps(w, response) ==
    LET doc == response.doc
        t0 == Step(w, response.outcome # "parsed", w)
        t1 == Step(t0, response.throws = "updateTitle", updateTitle(t0, doc))
        t2 == Step(t1, response.throws = "mergeHead", mergeHead(t1, doc.head))
        t3 == Step(t2, response.throws = "replaceBody",
                   replaceBody(t2, doc.body))
        t4 == Step(t3, response.throws = "reactivateScripts",
                   [t3 EXCEPT !.body = reactivateScripts(@),
                              !.effects = @ \o Reactivations(t3.body)])
    IN  Step(t4, FALSE,
             [t4 EXCEPT !.head = reactivateScripts(@),
                        !.effects = @ \o Reactivations(t4.head)])

\* an applyHtmlDiff that throws unless response.ok
applyHtmlDiffResume_ChecksOk(w, response) ==
    LET ok == response.status \in 200..299
        tried == IF response.outcome = "parsed" /\ ~ok
                 THEN [w EXCEPT !.threw = TRUE]
                 ELSE PatchSteps(w, response)
    IN  IF tried.threw
        THEN hardReload(Do([tried EXCEPT !.threw = FALSE], "error", NoUrl),
                        Str(locationPath))
        ELSE tried

\* an applyHtmlDiff without its try/catch
applyHtmlDiffResume_NoCatch(w, response) == PatchSteps(w, response)

\* applyHtmlDiff from its first await on; response is what the fetch,
\* response.text() and the parser produce
applyHtmlDiffResume(w, response) ==
    LET tried == PatchSteps(w, response)
    IN  IF tried.threw                                       \* catch (err)
        THEN hardReload(Do([tried EXCEPT !.threw = FALSE], "error", NoUrl),
                        Str(locationPath))
        ELSE tried

-----------------------------------------------------------------------------
(* Inputs                                                                  *)

Locations == {<<"/">>, <<"/", "a">>}

PathInputs ==
    {<<>>, <<"/", "a", "/">>, <<"/", "index.html">>, <<"/", "app.css">>,
     <<"/", "b.css">>, <<"/", "c.css">>}

TypeInputs ==
    {Undefined, Num(1), Str(<<"reload">>), Str(<<"diff">>), Str(<<"ping">>)}
ResourceInputs == {Undefined, Str(<<"html">>), Str(<<"css">>), Str(<<"js">>)}
PathValues == {Undefined} \cup {Str(p) : p \in PathInputs}

Messages ==
    {Obj(t, r, p) : t \in TypeInputs, r \in ResourceInputs, p \in PathValues}

\* texts that are not JSON
Malformed ==
    {<<>>,
     <<Punct("{")>>,
     <<Punct("{"), StrLit(<<"type">>), Punct(":"), StrLit(<<"reload">>)>>,
     <<Punct("{"), StrLit(<<"type">>), Punct(":"), StrLit(<<"reload">>),
       Punct(","), Punct("}")>>,
     <<StrLit(<<"type">>), Punct(":"), StrLit(<<"reload">>)>>,
     <<Punct("{"), StrLit(<<"type">>), StrLit(<<"diff">>), Punct("}")>>}

Frames ==
    Malformed
    \cup {JSONText(v) : v \in {Null, Num(0), Num(1), Str(<<"reload">>)}}
    \cup {JSONText(m) : m \in Messages}

LiveTitle == "home"

LiveHead ==
    <<Script("__web_dev_server_config", "", "config", "live"),
      Link("", "stylesheet", Url("self", <<"/", "app.css">>, 0), "live"),
      Link("", "stylesheet", Url("cdn", <<"/", "app.css">>, 0), "live"),
      Link("", "preload", Url("self", <<"/", "app.css">>, 0), "live"),
      Link("theme", "stylesheet", Url("self", <<"/", "b.css">>, 0), "live")>>

LiveBody ==
    <<Plain("div", "root", "live"),
      Script("__web_dev_server_client", "/_live/script.js", "", "live")>>

\* documents the server answers a fetch with, as DOMParser parses them
Doc(t, h, b) == [title |-> t, head |-> h, body |-> b]
ServedDocs ==
    {Doc("about",
         <<Script("", "/lib.js", "", "parsed"),
           Link("theme", "stylesheet", Url("self", <<"/", "c.css">>, 0),
                "parsed")>>,
         <<Plain("div", "root", "parsed"),
           Script("", "", "init()", "parsed")>>),
     Doc("",
         <<Script("__web_dev_server_config", "", "config2", "parsed")>>,
         <<Script("__web_dev_server_client", "/_live/script.js", "", "parsed"),
           Script("", "/app.js", "fallback()", "parsed")>>)}

\* what the server sends in a session of the connection manager
SessionFeed ==
    {<<Punct("{")>>,
     JSONText(Obj(Str(<<"reload">>), Undefined, Undefined)),
     JSONText(Obj(Str(<<"diff">>), Str(<<"css">>), Str(<<"/", "app.css">>))),
     JSONText(Obj(Str(<<"diff">>), Str(<<"html">>), Str(<<"/", "a", "/">>)))}

\* an html diff for the page /a
PageDiff ==
    JSONText(Obj(Str(<<"diff">>), Str(<<"html">>), Str(<<"/", "a", "/">>)))

NoDoc == Doc("", <<>>, <<>>)

Responses ==
    {Response("rejected", 0, NoDoc, "")}
    \cup {Response("parsed", 200, d, "") : d \in ServedDocs}

-----------------------------------------------------------------------------
(* The state machine                                                       *)

Event(kind, data) == [kind |-> kind, data |-> data]

\* the record a handler works on
World ==
    [title |-> title, head |-> head, body |-> body, fetches |-> fetches,
     effects |-> <<>>, threw |-> FALSE]

Remove(seq, i) == SubSeq(seq, 1, i - 1) \o SubSeq(seq, i + 1, Len(seq))

\* the IIFE has run: retryDelay = 500, connect() called
Started ==
    /\ retryDelay = InitialRetryDelay
    /\ sockets = NewSocket([s \in Slots |-> "none"])
    /\ timers = <<>>
    /\ now = 1
    /\ fetches = <<>>
    /\ lastEvent = Event("load", <<>>)
    /\ effects = <<>>
    /\ uncaught = FALSE
    /\ run = 0
    /\ reopened = FALSE

\* ... in either mode, on one of the pages of Locations
Loaded ==
    /\ diffMode \in BOOLEAN
    /\ locationPath \in Locations
    /\ title = LiveTitle
    /\ head = LiveHead
    /\ body = LiveBody
    /\ Started

\* a session in which the server sends the frames of SessionFeed
Init == Loaded /\ feed = SessionFeed

\* the sessions in which the server sends one frame, any number of times,
\* alone or along with html diffs for the page /a
MsgInit ==
    /\ Loaded
    /\ \E f \in Frames : feed \in {{f}, {f, PageDiff}}

\* time passes
Tick ==
    /\ now < MaxClock
    /\ now' = now + 1
    /\ lastEvent' = Event("tick", <<>>)
    /\ effects' = <<>>
    /\ uncaught' = FALSE
    /\ UNCHANGED <<envVars, connVars, docVars, fetches, run,
                   reopened>>

\* socket s fires "open"
SocketOpen(s) ==
    /\ sockets[s] = "connecting"
    /\ sockets' = [sockets EXCEPT ![s] = "open"]
    /\ retryDelay' = OpenListener(retryDelay)
    /\ lastEvent' = Event("open", <<>>)
    /\ effects' = <<Effect("log", NoUrl)>>
    /\ uncaught' = FALSE
    /\ run' = 0
    /\ reopened' = (run > 0)
    /\ UNCHANGED <<envVars, timers, now, docVars, fetches>>

\* socket s fires "message" with the frame data
SocketMessage(s, data) ==
    /\ sockets[s] = "open"
    /\ data \in feed
    /\ LET w == messageListener(World, data)
       IN  /\ title' = w.title
           /\ head' = w.head
           /\ body' = w.body
           /\ fetches' = w.fetches
           /\ effects' = w.effects
           /\ uncaught' = w.threw
    /\ lastEvent' = Event("message", data)
    /\ UNCHANGED <<envVars, connVars, now, run, reopened>>

\* socket s fires "error"; the browser has either closed the socket already
\* (a "close" event is queued) or not yet
SocketError(s) ==
    /\ sockets[s] \in {"connecting", "open"}
    /\ \E readyState \in {sockets[s], "closed"} :
        LET r == ErrorListener(readyState, retryDelay, timers)
        IN  /\ Len(r.timers) <= MaxTimers
            /\ sockets' = [sockets EXCEPT ![s] = r.readyState]
            /\ retryDelay' = r.retryDelay
            /\ timers' = r.timers
    /\ lastEvent' = Event("error", <<>>)
    /\ effects' = <<>>
    /\ uncaught' = FALSE
    /\ UNCHANGED <<envVars, now, docVars, fetches, run,
                   reopened>>

\* socket s fires "close": the socket is gone
SocketClose(s) ==
    /\ sockets[s] # "none"
    /\ LET r == CloseListener(retryDelay, timers)
       IN  /\ Len(r.timers) <= MaxTimers
           /\ retryDelay' = r.retryDelay
           /\ timers' = r.timers
    /\ sockets' = [sockets EXCEPT ![s] = "none"]
    /\ lastEvent' = Event("close", <<>>)
    /\ effects' = <<>>
    /\ uncaught' = FALSE
    /\ run' = Min2(run + 1, MaxRun)
    /\ UNCHANGED <<envVars, now, docVars, fetches, reopened>>

\* a reconnect timer fires: connect()
TimerFire(i) ==
    /\ i \in DOMAIN timers
    /\ \E s \in Slots : sockets[s] = "none"
    /\ timers' = Remove(timers, i)
    /\ sockets' = NewSocket(sockets)
    /\ lastEvent' = Event("timer", <<>>)
    /\ effects' = <<>>
    /\ uncaught' = FALSE
    /\ UNCHANGED <<envVars, retryDelay, now, docVars, fetches,
                   run, reopened>>

\* pending fetch i settles: applyHtmlDiff resumes
FetchSettle(i, response) ==
    /\ i \in DOMAIN fetches
    /\ LET w == applyHtmlDiffResume([World EXCEPT !.fetches = Remove(@, i)],
                                    response)
       IN  /\ title' = w.title
           /\ head' = w.head
           /\ body' = w.body
           /\ fetches' = w.fetches
           /\ effects' = w.effects
           /\ uncaught' = w.threw
    /\ lastEvent' = Event("fetch", [request |-> fetches[i],
                                    response |-> response])
    /\ UNCHANGED <<envVars, connVars, now, run, reopened>>

\* the pending fetches and the head stay within the bounds
Within(maxFetches, maxHead) ==
    Len(fetches') <= maxFetches /\ Len(head') <= maxHead

Next ==
    \/ Tick
    \/ \E s \in Slots : SocketOpen(s)
    \/ \E s \in Slots : \E data \in feed :
            SocketMessage(s, data) /\ Within(MaxFetches, MaxHead)
    \/ \E s \in Slots : SocketError(s)
    \/ \E s \in Slots : SocketClose(s)
    \/ \E i \in 1..MaxTimers : TimerFire(i)
    \/ \E i \in 1..MaxFetches : \E response \in Responses :
            FetchSettle(i, response) /\ Within(MaxFetches, MaxHead)

Spec == Init /\ [][Next]_vars

\* the message dispatcher and the diff appliers on an open socket
MsgNext ==
    \/ Tick
    \/ \E s \in Slots : SocketOpen(s)
    \/ \E s \in Slots : \E data \in feed :
            SocketMessage(s, data) /\ Within(MaxFetches, MaxHead)
    \/ \E i \in 1..MaxFetches : \E response \in Responses :
            FetchSettle(i, response) /\ Within(MaxFetches, MaxHead)

MsgSpec == MsgInit /\ [][MsgNext]_vars

\* the browser delivers a queued "close" event and fires a pending timer
QueuedClose == \E s \in Slots : sockets[s] \in {"closing", "closed"} /\ SocketClose(s)
TimerFires == \E i \in 1..MaxTimers : TimerFire(i)

FairSpec == Spec /\ WF_vars(QueuedClose) /\ WF_vars(TimerFires)

-----------------------------------------------------------------------------
(* The DOM patch engine: html diffs for the page /a in patch mode          *)

\* the page the server answers with when it has no document to serve
ErrorPage ==
    Doc("error",
        <<Link("errorstyle", "stylesheet", Url("self", <<"/", "c.css">>, 0),
               "parsed")>>,
        <<Plain("h1", "", "parsed")>>)

\* a document without a body element
Bodyless == Doc("frames", <<>>, NoNode)

PatchThrows == {"mergeHead", "replaceBody", "reactivateScripts"}

PatchResponses ==
    {Response("rejected", 0, NoDoc, ""),
     Response("unreadable", 200, NoDoc, ""),
     Response("nodoc", 200, NoDoc, ""),
     Response("parsed", 200, Bodyless, ""),
     Response("parsed", 404, ErrorPage, ""),
     Response("parsed", 500, ErrorPage, "")}
    \cup {Response("parsed", 200, d, "") : d \in ServedDocs}
    \cup {Response("parsed", 200, CHOOSE d \in ServedDocs : d.title # "", t) :
            t \in PatchThrows}

\* /a is displayed in patch mode and the server sends html diffs for it
PatchInit ==
    /\ diffMode = TRUE
    /\ locationPath = <<"/", "a">>
    /\ feed = {PageDiff}
    /\ title = LiveTitle
    /\ head = LiveHead
    /\ body = LiveBody
    /\ Started

PatchNext ==
    \/ Tick
    \/ \E s \in Slots : SocketOpen(s)
    \/ \E s \in Slots : \E data \in feed :
            SocketMessage(s, data) /\ Within(MaxOverlap, MaxPatchHead)
    \/ \E i \in 1..MaxOverlap : \E response \in PatchResponses :
            FetchSettle(i, response) /\ Within(MaxOverlap, MaxPatchHead)

PatchSpec == PatchInit /\ [][PatchNext]_vars

-----------------------------------------------------------------------------
(* The path normalizer: html diffs in patch mode, one path per session     *)

PathTokens == {"/", "my", "index.html", "index.htm"}

\* the absolute paths of at most MaxPathLen tokens
DiffPaths ==
    {p \in UNION {[1..k -> PathTokens] : k \in 1..MaxPathLen} :
        p[1] = "/" /\ (Len(p) > 1 => p[2] # "/")}

\* the pages displayed: /, /my, /my/, /myindex.html, /my/index.html
PageLocations ==
    {<<"/">>, <<"/", "my">>, <<"/", "my", "/">>, <<"/", "my", "index.html">>,
     <<"/", "my", "/", "index.html">>}

HtmlDiff(p) == JSONText(Obj(Str(<<"diff">>), Str(<<"html">>), Str(p)))

PathInit ==
    /\ diffMode = TRUE
    /\ locationPath \in PageLocations
    /\ \E p \in DiffPaths : feed = {HtmlDiff(p)}
    /\ title = LiveTitle
    /\ head = LiveHead
    /\ body = LiveBody
    /\ Started

PathNext ==
    \/ \E s \in Slots : SocketOpen(s)
    \/ \E s \in Slots : \E data \in feed :
            SocketMessage(s, data) /\ Within(MaxFetches, MaxHead)

PathSpec == PathInit /\ [][PathNext]_vars

-----------------------------------------------------------------------------
(* Properties of the connection manager                                    *)

\* the delay of the reconnect the last close listener scheduled
ScheduledDelay == timers[Len(timers)]

\* 500, 1000, 2000, 4000, 8000, 8000, ...
BackoffDelay(n) == IF n >= 5 THEN 8000 ELSE 500 * 2 ^ (n - 1)

\* C1: the n-th consecutive close since the last open (or since the start)
\* schedules connect() after 500 * 2^(n-1) ms, capped at 8000 ms.
C1_BackoffStartsAt500 ==
    lastEvent.kind = "close" =>
        /\ timers # <<>>
        /\ ScheduledDelay = BackoffDelay(run)

\* C2: the first close after an open that followed failed connections
\* schedules connect() after 500 ms.
C2_DelayAfterOpenIs500 ==
    (lastEvent.kind = "close" /\ run = 1 /\ reopened) =>
        /\ timers # <<>>
        /\ ScheduledDelay = 500

\* C3: the sockets that have not fired "close" and the pending reconnect
\* timers are together at most one.
C3_OneSocketOrOneTimer == Cardinality(LiveSockets) + Len(timers) <= 1

\* an error listener has run and the socket waits for its "close": nothing
\* is scheduled yet
C3_Witness ==
    /\ lastEvent.kind = "error"
    /\ \E s \in Slots : sockets[s] \in {"closing", "closed"}
    /\ timers = <<>>
    /\ run >= 1

\* C4: there is always a live socket or a pending timer, and a socket that has
\* errored or closed leads to a new connecting socket.
C4_RetriesForever ==
    /\ [](Cardinality(LiveSockets) + Len(timers) >= 1)
    /\ ((\/ \E s \in Slots : sockets[s] \in {"closing", "closed"}
         \/ timers # <<>>)
            ~> (\E s \in Slots : sockets[s] = "connecting"))

\* connect() has been called again after MaxRun closes in a row
C4_Witness ==
    /\ lastEvent.kind = "timer"
    /\ run = MaxRun
    /\ retryDelay = MaxRetryDelay
    /\ \E s \in Slots : sockets[s] = "connecting"

-----------------------------------------------------------------------------
(* Properties of the message dispatcher                                    *)

\* the frame of the message whose listener ran last is in the set F
Received(F) == lastEvent.kind = "message" /\ lastEvent.data \in F

\* the only effect of a full reload of the current path
ReloadOnly == <<Effect("replace", Url("self", locationPath, now))>>

HasEffect(op) == \E i \in DOMAIN effects : effects[i].op = op

\* the listener triggered no reload, no fetch and no href rewrite
NoAction == ~HasEffect("replace") /\ ~HasEffect("fetch") /\ ~HasEffect("href")

FramesOf(M) == {JSONText(m) : m \in M}
ReloadMessages == {m \in Messages : m.type = Str(<<"reload">>)}
DiffMessages == {m \in Messages : m.type = Str(<<"diff">>)}
PathMissing(m) == m.path \in {Undefined, Str(<<>>)}
ReloadFrames == FramesOf(ReloadMessages)
DiffFrames == FramesOf(DiffMessages)

\* frames that are not JSON, are no record with a string type, or have a type
\* other than reload and diff
IgnoredFrames ==
    Malformed
    \cup FramesOf({Null, Num(0), Num(1), Str(<<"reload">>)})
    \cup FramesOf(Messages \ (ReloadMessages \cup DiffMessages))

\* C5: a frame that is not JSON, is no record with a string type or has a type
\* other than reload and diff changes nothing: no exception escapes, the
\* connection, the document and the pending fetches are as before, and no
\* reload, fetch or href rewrite is triggered.
C5_IgnoredFrameChangesNothing ==
    [][Received(IgnoredFrames)' =>
            /\ UNCHANGED <<connVars, docVars, fetches>>
            /\ ~uncaught'
            /\ NoAction']_vars

\* a text that is not JSON has been received and logged on an open socket
C5_Witness ==
    /\ Received(Malformed)
    /\ effects = <<Effect("error", NoUrl)>>
    /\ \E s \in Slots : sockets[s] = "open"

\* C6: a reload message triggers exactly a full reload of the current path,
\* in both modes and with any resource and path; the document and the
\* pending fetches are as before.
C6_ReloadAlwaysReloads ==
    [][Received(ReloadFrames)' =>
            /\ effects' = ReloadOnly'
            /\ UNCHANGED <<docVars, fetches>>]_vars

\* a reload message that names a stylesheet of the document reloaded the page
\* in patch mode
C6_Witness ==
    /\ diffMode
    /\ Received({JSONText(Obj(Str(<<"reload">>), Str(<<"css">>),
                              Str(<<"/", "app.css">>)))})
    /\ effects = ReloadOnly

\* C7: with patch mode off, a diff message triggers exactly a full reload of
\* the current path, for any resource and path; the document and the pending
\* fetches are as before.
C7_DiffWithoutPatchModeReloads ==
    [][(~diffMode /\ Received(DiffFrames)') =>
            /\ effects' = ReloadOnly'
            /\ UNCHANGED <<docVars, fetches>>]_vars

\* an html diff for the current page reloaded the page with patch mode off
C7_Witness ==
    /\ ~diffMode
    /\ locationPath = <<"/", "a">>
    /\ Received({JSONText(Obj(Str(<<"diff">>), Str(<<"html">>),
                              Str(<<"/", "a", "/">>)))})
    /\ effects = ReloadOnly

HtmlDiffs == {m \in DiffMessages : m.resource = Str(<<"html">>)}
HtmlDiffFrames == FramesOf(HtmlDiffs)

\* the normalized form of every path of a message and of every location
Normalized ==
    [v \in PathValues \cup {Str(l) : l \in Locations} |-> normalizeHtmlPath(v)]

\* the frame received last is an html diff whose path normalizes to something
\* else than the current path
OtherPageDiffReceived ==
    /\ Received(HtmlDiffFrames)
    /\ \E m \in {JSONParse(lastEvent.data).value} :
        Normalized[m.path] # Normalized[Str(locationPath)]

\* C8: in patch mode an html diff for another page changes nothing: no fetch,
\* no reload, the document as before.
C8_OtherPageDiffSkipped ==
    [][(diffMode /\ OtherPageDiffReceived') =>
            /\ UNCHANGED <<docVars, fetches>>
            /\ NoAction']_vars

\* an html diff for /a/ has been skipped while / is displayed
C8_Witness ==
    /\ diffMode
    /\ locationPath = <<"/">>
    /\ Received({JSONText(Obj(Str(<<"diff">>), Str(<<"html">>),
                              Str(<<"/", "a", "/">>)))})
    /\ effects = <<Effect("log", NoUrl)>>

\* diffs that the claim sends to a full reload
FallbackDiffs ==
    {m \in DiffMessages :
        \/ m.resource \notin {Str(<<"html">>), Str(<<"css">>)}
        \/ PathMissing(m)}
FallbackFrames == FramesOf(FallbackDiffs)

\* C9: in patch mode a diff whose resource is neither html nor css, or whose
\* path is missing, triggers a full reload of the current path.
C9_MissingPathReloads ==
    (diffMode /\ Received(FallbackFrames)) => effects = ReloadOnly

\* css diffs with a path
CssDiffs ==
    {m \in DiffMessages : m.resource = Str(<<"css">>) /\ ~PathMissing(m)}
CssDiffFrames == FramesOf(CssDiffs)

\* the path of the css diff received last
CssTarget == JSONParse(lastEvent.data).value.path.s

\* element e is a stylesheet link to the pathname p, on any host
LinksTo(e, p) == e.tag = "link" /\ e.rel = "stylesheet" /\ e.href.path = p

\* what a css diff for the pathname p makes of the children old
Refreshed(old, new, p, t) ==
    /\ Len(new) = Len(old)
    /\ \A i \in DOMAIN old :
        new[i] = IF LinksTo(old[i], p)
                 THEN [old[i] EXCEPT !.href.v = t] ELSE old[i]

\* C10: in patch mode a css diff with a path gives every stylesheet link to
\* that pathname the current time as _v and changes nothing else, whatever
\* the current location; it reloads exactly when no stylesheet link matches.
C10_CssDiffRefreshesMatchingLinks ==
    [][(diffMode /\ Received(CssDiffFrames)') =>
            /\ Refreshed(head, head', CssTarget', now)
            /\ Refreshed(body, body', CssTarget', now)
            /\ UNCHANGED <<title, fetches>>
            /\ ~HasEffect("fetch")'
            /\ HasEffect("replace")' <=>
                    ~\E e \in {head[i] : i \in DOMAIN head}
                              \cup {body[i] : i \in DOMAIN body} :
                        LinksTo(e, CssTarget')
            /\ HasEffect("replace")' => effects' = ReloadOnly']_vars

\* a css diff for /app.css has refreshed both stylesheet links to that
\* pathname, and not the preload link, while /a is displayed
C10_Witness ==
    /\ diffMode
    /\ locationPath = <<"/", "a">>
    /\ now = MaxClock
    /\ Received({JSONText(Obj(Str(<<"diff">>), Str(<<"css">>),
                              Str(<<"/", "app.css">>)))})
    /\ head[2].href = Url("self", <<"/", "app.css">>, now)
    /\ head[3].href = Url("cdn", <<"/", "app.css">>, now)
    /\ head[4].href = Url("self", <<"/", "app.css">>, 0)
    /\ head[5].href.v = 0
    /\ ~HasEffect("replace")

-----------------------------------------------------------------------------
(* Properties of the DOM patch engine                                      *)

\* the listener that ran last is the continuation of applyHtmlDiff
Settled == lastEvent.kind = "fetch"

\* the response that continuation worked on, and its document
Answer == lastEvent.data.response
Fetched == lastEvent.data.response.doc

\* the fetch, the read, the parse or a step of the patch failed
Failed(r) == r.outcome # "parsed" \/ r.throws # ""

\* the answer was parsed into a document with a body and no step threw
Patchable(r) == ~Failed(r) /\ r.doc.body # NoNode

\* the listener triggered a full reload of the current path
ReloadTriggered ==
    \E i \in DOMAIN effects :
        effects[i] = Effect("replace", Url("self", locationPath, now))

\* the failure is logged and the current path is reloaded
CaughtAndReloaded ==
    <<Effect("error", NoUrl), Effect("replace", Url("self", locationPath, now))>>

\* a and b carry the same attributes
SameAttributes(a, b) ==
    /\ a.tag = b.tag
    /\ a.id = b.id
    /\ a.rel = b.rel
    /\ a.href = b.href
    /\ a.src = b.src

\* the children are those of the fetched element, one for one
Shows(children, fetched) ==
    /\ Len(children) = Len(fetched)
    /\ \A i \in DOMAIN fetched : SameAttributes(children[i], fetched[i])

\* C11: every failure of an html diff (fetch rejects, body unreadable, no
\* document parsed, a step of the patch throws) is caught, logged and ends in
\* a full reload of the current path; an html diff that did not fail either
\* completed the patch or triggered a reload; no exception escapes.
C11_PatchFailureReloads ==
    [][Settled' =>
        /\ ~uncaught'
        /\ Failed(Answer') => effects' = CaughtAndReloaded
        /\ ~Failed(Answer') =>
                \/ ReloadTriggered'
                \/ ~HasEffect("replace")' /\ Shows(body', Fetched'.body)]_vars

\* replaceBody threw after the head had been merged: the body is the old one,
\* the failure is logged and the page reloads
C11_Witness ==
    /\ Settled
    /\ Answer.throws = "replaceBody"
    /\ head # LiveHead
    /\ body = LiveBody
    /\ effects = CaughtAndReloaded
    /\ ~uncaught

\* the elements among the children
Elements(children) == {children[i] : i \in DOMAIN children}

\* the elements of the document the script started in that carry a
\* preserved id
PreservedLive ==
    {e \in Elements(LiveHead) \cup Elements(LiveBody) : e.id \in getPreservedIds}

\* C12: each element of the live document that carries a preserved id, in the
\* head or in the body, is still in the live document as the same element
\* after any sequence of html diffs.
C12_PreservedElementsStay ==
    \A e \in PreservedLive : e \in Elements(head) \cup Elements(body)

\* mergeHead has run on the head of the answer's document
MergeRan(r) == r.outcome = "parsed" /\ r.throws # "mergeHead"

\* the ids of the children of the fetched head
FetchedIds(fetched) == {fetched[k].id : k \in DOMAIN fetched} \ {""}

\* f is the element e: the same object, or, when the scripts have been
\* reactivated after the merge, the script created in the place of e
Stays(e, f, reactivated) ==
    \/ f = e
    \/ /\ reactivated
       /\ e.tag = "script"
       /\ e.id \notin getPreservedIds
       /\ SameAttributes(f, e)
       /\ f.gen = "created"

\* f is the copy of the fetched child n that the merge put into the head
CopyOf(f, n) == SameAttributes(f, n) /\ f.gen \in {"imported", "created"}

\* C15: mergeHead only adds and replaces.  A child of the live head that has
\* no id, or whose id no child of the fetched head has, stays where it is,
\* unchanged; a child that does not stay has given its place to the copy of
\* a fetched child with the same id, which is not a preserved id; the head
\* never has fewer children than before.
C15_HeadMergeAdditive ==
    [][(Settled' /\ MergeRan(Answer')) =>
        /\ Len(head') >= Len(head)
        /\ \A i \in DOMAIN head :
            /\ (head[i].id = "" \/ head[i].id \notin FetchedIds(Fetched'.head))
                    => Stays(head[i], head'[i], Answer'.throws = "")
            /\ \/ Stays(head[i], head'[i], Answer'.throws = "")
               \/ \E k \in DOMAIN Fetched'.head :
                    /\ Fetched'.head[k].id = head[i].id
                    /\ head[i].id # ""
                    /\ head[i].id \notin getPreservedIds
                    /\ CopyOf(head'[i], Fetched'.head[k])]_vars

\* mergeHead alone has run (replaceBody threw): the four children without a
\* counterpart are the same objects, link#theme has given its place to the
\* fetched one, and the fetched script is appended
C15_Witness ==
    /\ Settled
    /\ Answer.throws = "replaceBody"
    /\ Len(head) = Len(LiveHead) + 1
    /\ \A i \in 1..4 : head[i] = LiveHead[i]
    /\ head[5] = Link("theme", "stylesheet", Url("self", <<"/", "c.css">>, 0),
                      "imported")
    /\ head[6] = Script("", "/lib.js", "", "imported")

\* the fetch of the page /a/ started at time t
PageFetch(t) == Url("self", <<"/", "a", "/">>, t)

\* C16: overlapping html diffs are neither sequenced nor cancelled.  An html
\* diff for the page starts its fetch at once and leaves the fetches already
\* pending as they are; a fetch that settles leaves the other pending fetches
\* as they are, in whatever order the fetches were started, and its document
\* is patched in even when a fetch started earlier is still pending; that
\* fetch is patched in when it settles, on top of the later one.
C16_OverlappingDiffsAllApply ==
    [][/\ Received({PageDiff})' =>
            /\ fetches' = Append(fetches, PageFetch(now))
            /\ UNCHANGED docVars
       /\ Settled' =>
            /\ \E i \in DOMAIN fetches :
                    /\ fetches[i] = lastEvent'.data.request
                    /\ fetches' = Remove(fetches, i)
            /\ Patchable(Answer') =>
                    /\ Shows(body', Fetched'.body)
                    /\ ~HasEffect("replace")']_vars

\* the document of the fetch started at time 2 has been patched in while the
\* fetch started at time 1 is still pending
C16_Witness ==
    /\ Settled
    /\ lastEvent.data.request = PageFetch(2)
    /\ Patchable(Answer)
    /\ Shows(body, Fetched.body)
    /\ fetches = <<PageFetch(1)>>

\* new is what a successful html diff leaves of the element old it found in
\* the merged head or in the new body: a script without preserved id is a
\* created script with the same attributes, and with the text of old exactly
\* when old has no src; everything else is old itself
Reactivated(old, new) ==
    IF old.tag = "script" /\ old.id \notin getPreservedIds
    THEN /\ new.gen = "created"
         /\ SameAttributes(new, old)
         /\ new.text = (IF old.src = "" THEN old.text ELSE "")
    ELSE new = old

\* the scripts without preserved id among the children, in document order
ScriptsOf(children) ==
    SelectSeq(children, LAMBDA e : e.tag = "script" /\ e.id \notin getPreservedIds)

\* C18: a successful html diff reactivates the scripts after the merge of the
\* head and the replacement of the body: every script of the new body and of
\* the merged head that has no preserved id, those the diff imported
\* included, is a created script with the same attributes, and with the
\* inline text exactly when the one it replaces has no src; the scripts with a
\* preserved id and the other elements are as imported; one script is run
\* per script without preserved id, the body's first, then the head's.
C18_ScriptsReactivatedAfterPatch ==
    [][(Settled' /\ Patchable(Answer')) =>
        /\ Len(body') = Len(Fetched'.body)
        /\ \A i \in DOMAIN body' :
                Reactivated(importNode(Fetched'.body[i]), body'[i])
        /\ \A i \in DOMAIN head' :
                /\ head'[i].gen = "created" <=>
                        (head'[i].tag = "script"
                            /\ head'[i].id \notin getPreservedIds)
                /\ i \in DOMAIN head /\ head'[i].gen # "imported" =>
                        Reactivated(head[i], head'[i])
        /\ Len(effects') = Len(ScriptsOf(body')) + Len(ScriptsOf(head'))
        /\ \A k \in DOMAIN effects' :
                effects'[k] =
                    Effect("script",
                           ScriptUrl((ScriptsOf(body') \o ScriptsOf(head'))[k]))
       ]_vars

\* the document with the client script and /app.js in its body has been
\* patched in after the one with /lib.js in its head: /app.js and /lib.js
\* are created scripts and have run, in that order; the text of /app.js is
\* not copied; the client script is the imported one
C18_Witness ==
    /\ Settled
    /\ Patchable(Answer)
    /\ body = <<Script("__web_dev_server_client", "/_live/script.js", "",
                       "imported"),
                Script("", "/app.js", "", "created")>>
    /\ Len(head) = Len(LiveHead) + 1
    /\ head[6] = Script("", "/lib.js", "", "created")
    /\ head[1] = LiveHead[1]
    /\ effects = <<Effect("script", Url("self", <<"/app.js">>, 0)),
                   Effect("script", Url("self", <<"/lib.js">>, 0))>>

\* the children of the fetched head that have no id
IdLess(fetched) == {k \in DOMAIN fetched : fetched[k].id = ""}

\* the children of the fetched head with an id, not a preserved one, that no
\* child of the live head has, or that an earlier fetched child has too
Unmatched(live, fetched) ==
    {k \in DOMAIN fetched :
        /\ fetched[k].id # ""
        /\ fetched[k].id \notin getPreservedIds
        /\ \/ \A i \in DOMAIN live : live[i].id # fetched[k].id
           \/ \E j \in 1..(k - 1) : fetched[j].id = fetched[k].id}

\* every script of the head before the diff that has no preserved id is run
\* by the diff
HeadScriptsRunAgain ==
    \A i \in DOMAIN head :
        (head[i].tag = "script" /\ head[i].id \notin getPreservedIds) =>
            \E k \in DOMAIN effects' :
                effects'[k] = Effect("script", ScriptUrl(head[i]))

\* C19 as stated: every successful html diff makes the live head longer by
\* exactly the number of fetched head children without id (n diffs of a
\* document with k such children: n*k), and runs every script without
\* preserved id that the head has accumulated.
C19_HeadGrowsByIdLess ==
    [][(Settled' /\ Patchable(Answer')) =>
        /\ Len(head') = Len(head) + Cardinality(IdLess(Fetched'.head))
        /\ HeadScriptsRunAgain]_vars

\* C19, amended: every successful html diff makes the live head longer by
\* the number of fetched head children without id plus the number of those
\* whose id, not a preserved one, has no counterpart left in the live head
\* (n*k after n diffs only for a document whose ids are all preserved or in
\* the live head), and runs every script without preserved id that the head
\* has accumulated.
C19_HeadGrowsByAppended ==
    [][(Settled' /\ Patchable(Answer')) =>
        /\ Len(head') = Len(head) + Cardinality(IdLess(Fetched'.head))
                                  + Cardinality(Unmatched(head, Fetched'.head))
        /\ HeadScriptsRunAgain]_vars

\* the document with /lib.js in its head has been patched in twice: the
\* head has two children more, and the second diff ran both copies
C19_Witness ==
    /\ Settled
    /\ Patchable(Answer)
    /\ Cardinality(IdLess(Fetched.head)) = 1
    /\ Len(head) = Len(LiveHead) + 2
    /\ head[6] = Script("", "/lib.js", "", "created")
    /\ head[7] = Script("", "/lib.js", "", "created")
    /\ effects = <<Effect("script", NoUrl),
                   Effect("script", Url("self", <<"/lib.js">>, 0)),
                   Effect("script", Url("self", <<"/lib.js">>, 0))>>

-----------------------------------------------------------------------------
(* Properties of the path normalizer                                       *)

\* the path of the html diff received last
DiffPath == JSONParse(lastEvent.data).value.path.s

\* an html diff has been dispatched: pathsMatch has normalized its path and
\* the path of the page
Compared == lastEvent.kind = "message"

\* normalizeHtmlPath of every path of a diff and of every page
NormalForm ==
    [p \in DiffPaths \cup PageLocations |-> normalizeHtmlPath(Str(p))]

\* normalizeHtmlPath of those results
Renormalized ==
    [p \in DiffPaths \cup PageLocations |->
        normalizeHtmlPath(Str(NormalForm[p]))]

\* C13: normalizing the normal form of a path gives that normal form again,
\* for the path of every html diff and the path of every page.
C13_NormalizerIdempotent ==
    Compared =>
        /\ Renormalized[DiffPath] = NormalForm[DiffPath]
        /\ Renormalized[locationPath] = NormalForm[locationPath]

\* the directory paths whose last segment does not end in the name of an
\* index file, and the root
Dirs == {<<"/">>} \cup {d \in DiffPaths : d[Len(d)] = "my"}

\* d, d/, d/index.html and d/index.htm
Forms ==
    [d \in Dirs |->
        IF d = <<"/">>
        THEN {<<"/">>, <<"/", "index.html">>, <<"/", "index.htm">>}
        ELSE {d, d \o <<"/">>, d \o <<"/", "index.html">>,
              d \o <<"/", "index.htm">>}]

MerelyEndsInIndex(p) ==
    /\ Len(p) >= 2
    /\ p[Len(p)] \in {"index.html", "index.htm"}
    /\ p[Len(p) - 1] # "/"

\* C17: a path whose last segment merely ends in index.html or index.htm is
\* its own normal form, and an html diff for /myindex.html is not applied
\* while /my is displayed, nor one for /my while /myindex.html is displayed.
C17_OnlyWholeSegmentStripped ==
    Compared =>
        /\ MerelyEndsInIndex(DiffPath) => NormalForm[DiffPath] = DiffPath
        /\ <<DiffPath, locationPath>>
                \in {<<<<"/", "my", "index.html">>, <<"/", "my">>>>,
                     <<<<"/", "my">>, <<"/", "my", "index.html">>>>}
                => NoAction

====
